---- MODULE Spec2Model ----
(***************************************************************************)
(* Model of notebooks/examples/Log-Likelihood-Ratios.ipynb:                *)
(* interactive_heatmap / update_heatmap / generate_heatmap.                *)
(*                                                                         *)
(* Tensors and arrays are functions over 0..n-1 (Python's 0-based          *)
(* indexing); protein_sequence is a TLA+ sequence, so its k-th residue     *)
(* (1-indexed) is protein_sequence[k].                                     *)
(***************************************************************************)
EXTENDS Integers, Sequences, FiniteSets, TLC

\* ------------------------------------------------------------------ bounds
MaxLen == 3          \* longest protein sequence tried
MaxWeight == 1       \* number of different scoring models tried
LogitRange == 7      \* logits of the scoring model lie in 0..LogitRange-1
MaxArgs == 3         \* most parameters given to esm_example.sh
MaxWorkers == 2      \* widest range whose positions are run in any order

\* ------------------------------------------------------- python primitives
None == -1000        \* the value of an argument that was not given

\* range(a, b)
range(a, b) == a .. (b - 1)

\* t[i] on a tensor of n elements: negative indices count from the end,
\* anything outside -n..n-1 raises IndexError (returned here as None).
PyIndex(n, i) ==
    IF 0 <= i /\ i < n THEN i
    ELSE IF i < 0 /\ i >= -n THEN n + i
    ELSE None

RECURSIVE Pow2(_)
Pow2(k) == IF k <= 0 THEN 1 ELSE 2 * Pow2(k - 1)

RECURSIVE Log2Floor(_)
Log2Floor(x) == IF x <= 1 THEN 0 ELSE 1 + Log2Floor(x \div 2)

RECURSIVE SumUpTo(_, _)
\* f[0] + ... + f[n-1]
SumUpTo(f, n) == IF n <= 0 THEN 0 ELSE f[n - 1] + SumUpTo(f, n - 1)

\* ---------------------------------------------------------------- tokenizer
\* Vocabulary of the facebook/esm2_t6_8M_UR50D tokenizer, in id order (id 0 first).
Vocab ==
    << "<cls>", "<pad>", "<eos>", "<unk>",
       "L", "A", "G", "V", "S", "E", "R", "T", "I", "D", "P", "K", "Q", "F",
       "N", "Y", "M", "H", "W", "C", "X", "B", "U", "Z", "O", ".", "-",
       "<null_1>", "<mask>" >>

VocabIds == 0 .. (Len(Vocab) - 1)

\* tokenizer.convert_tokens_to_ids(token); unknown tokens map to <unk>
convert_tokens_to_ids(token) ==
    IF \E k \in 1..Len(Vocab) : Vocab[k] = token
    THEN (CHOOSE k \in 1..Len(Vocab) : Vocab[k] = token) - 1
    ELSE 3

mask_token_id == convert_tokens_to_ids("<mask>")
cls_token_id == convert_tokens_to_ids("<cls>")
eos_token_id == convert_tokens_to_ids("<eos>")

\* tokenizer.encode(protein_sequence, return_tensors="pt")[0]:
\* <cls>, one token per residue, <eos>
encode(seq) ==
    [j \in 0 .. (Len(seq) + 1) |->
        IF j = 0 THEN cls_token_id
        ELSE IF j = Len(seq) + 1 THEN eos_token_id
        ELSE convert_tokens_to_ids(seq[j])]

\* input_ids.shape[1]
shape1(ids) == Cardinality(DOMAIN ids)

\* list("ACDEFGHIKLMNPQRSTVWY")
amino_acids ==
    << "A", "C", "D", "E", "F", "G", "H", "I", "K", "L",
       "M", "N", "P", "Q", "R", "S", "T", "V", "W", "Y" >>

\* ------------------------------------------------------------ scoring model
\* model(ids).logits[0, idx]: a deterministic function of the whole token
\* sequence it is given and of the index read (the network is in eval mode).
\* w selects one of the scoring models tried.
model_logits(w, ids, idx) ==
    LET n == shape1(ids)
        ctx == SumUpTo([j \in 0 .. (n - 1) |-> ids[j] * (j + 1)], n)
    IN  [t \in VocabIds |-> (w * (t + 1) + ctx + idx) % LogitRange]

\* torch.nn.functional.softmax(x, dim=0): entry t is exp(x[t]) over the
\* normaliser shared by all entries; kept as numerators and normaliser (base 2).
softmax(x) ==
    [ num |-> [t \in VocabIds |-> Pow2(x[t])],
      den |-> SumUpTo([t \in VocabIds |-> Pow2(x[t])], Len(Vocab)) ]

\* torch.log(probabilities), element-wise (rounded to integers)
log(p) ==
    LET d == Log2Floor(p.den)
    IN  [t \in DOMAIN p.num |-> Log2Floor(p.num[t]) - d]

\* s[a:b] on a Python sequence (s is 1-indexed here, a and b are Python's)
PySlice(s, a, b) ==
    LET n == Len(s)
        lo == IF a < 0 THEN (IF a + n < 0 THEN 0 ELSE a + n) ELSE (IF a > n THEN n ELSE a)
        hi == IF b < 0 THEN (IF b + n < 0 THEN 0 ELSE b + n) ELSE (IF b > n THEN n ELSE b)
    IN  IF lo < hi THEN SubSeq(s, lo + 1, hi) ELSE << >>

\* np.zeros((rows, cols)) for cols >= 0
zeros(rows, cols) == [i \in 0 .. (rows - 1) |-> [c \in 0 .. (cols - 1) |-> 0]]

\* ------------------------------------------------------------------- inputs
\* The notebook's example protein (its first 14 residues).
example_sequence ==
    << "M", "A", "P", "L", "R", "K", "T", "Y", "V", "L", "K", "L", "Y", "V" >>

InputSequences ==
    { SubSeq(example_sequence, k, k + n - 1) : k \in {1, 8}, n \in 1..MaxLen }

\* -------------------------------------------------------------------- state
VARIABLES
    protein_sequence,   \* the notebook's protein_sequence
    weights,            \* which scoring model is loaded
    ui,                 \* TRUE once interactive_heatmap displayed the sliders
    start_slider,       \* start_slider.value
    end_slider,         \* end_slider.value
    pc,                 \* where generate_heatmap is ("idle" when not running)
    request,            \* the latest generate_heatmap call: <<caller, start, end>>
    start_pos, end_pos, sequence_length,
    input_ids, masked_input_ids, log_probabilities,
    wt_residue, log_prob_wt,
    position, i,
    heatmap,
    writes,             \* how many times each heatmap cell was assigned
    inferences,         \* model forward passes run by the latest call
    figure,             \* the table the latest call handed to plt.imshow
    error,              \* the exception that ended the latest call
    \* esm_example.sh
    argv,               \* the script's positional parameters "$@"
    OPTIND, optpos,     \* getopts: next parameter, next character inside it (0: none)
    opt, OPTARG,
    app, sequence, output_file,
    stdout, stderr, status,
    cli_pc,             \* "off", "getopts", "echo", "exit"
    given,              \* the <<flag, value>> pairs the loop has handled so far
    \* the loop body of generate_heatmap run once per position, in any order
    par_pc,             \* position -> where its run of the loop body is
    par_masked_input_ids, par_log_probabilities, par_log_prob_wt, par_i,
                        \* position -> the locals of its run
    par_heatmap         \* the table the runs write to

frame == << start_pos, end_pos, sequence_length, input_ids, masked_input_ids,
            log_probabilities, wt_residue, log_prob_wt, position, i, heatmap,
            writes, inferences, figure, error >>

widget == << ui, start_slider, end_slider >>

cli == << argv, OPTIND, optpos, opt, OPTARG, app, sequence, output_file,
          stdout, stderr, status, cli_pc, given >>

par == << par_pc, par_masked_input_ids, par_log_probabilities, par_log_prob_wt,
          par_i, par_heatmap >>

vars == << protein_sequence, weights, widget, pc, request, frame, cli, par >>

notebook_state == << protein_sequence, weights, widget, pc, request, frame >>

L == Len(protein_sequence)

NoTensor == << >>
NoFigure == << >>

\* The notebook after its first two cells ran; protein_sequence is set.
InitNotebook ==
    /\ protein_sequence \in InputSequences
    /\ weights \in 1..MaxWeight
    /\ ui = FALSE
    /\ start_slider = 0
    /\ end_slider = 0
    /\ pc = "idle"
    /\ request = << >>
    /\ start_pos = None
    /\ end_pos = None
    /\ sequence_length = None
    /\ input_ids = NoTensor
    /\ masked_input_ids = NoTensor
    /\ log_probabilities = NoTensor
    /\ wt_residue = None
    /\ log_prob_wt = None
    /\ position = None
    /\ i = None
    /\ heatmap = NoTensor
    /\ writes = NoTensor
    /\ inferences = 0
    /\ figure = NoFigure
    /\ error = "none"

\* The shell variables before esm_example.sh starts its option loop.
InitShell ==
    /\ OPTIND = 1
    /\ optpos = 0
    /\ opt = ""
    /\ OPTARG = << >>
    /\ app = << >>
    /\ sequence = << >>
    /\ output_file = << >>
    /\ stdout = << >>
    /\ stderr = << >>
    /\ status = 0
    /\ given = << >>

\* No run of the loop body is under way.
InitPar ==
    /\ par_pc = << >>
    /\ par_masked_input_ids = << >>
    /\ par_log_probabilities = << >>
    /\ par_log_prob_wt = << >>
    /\ par_i = << >>
    /\ par_heatmap = NoTensor

\* A notebook session; the script is not run.
Init ==
    /\ InitNotebook
    /\ InitShell
    /\ InitPar
    /\ argv = << >>
    /\ cli_pc = "off"

\* ------------------------------------------------------------- operations
\* A call of generate_heatmap(protein_sequence, s, e) enters the function
\* with fresh locals.
Enter(caller, s, e) ==
    /\ pc' = "tokenize"
    /\ request' = << caller, s, e >>
    /\ start_pos' = s
    /\ end_pos' = e
    /\ sequence_length' = None
    /\ input_ids' = NoTensor
    /\ masked_input_ids' = NoTensor
    /\ log_probabilities' = NoTensor
    /\ wt_residue' = None
    /\ log_prob_wt' = None
    /\ position' = None
    /\ i' = None
    /\ heatmap' = NoTensor
    /\ writes' = NoTensor
    /\ inferences' = 0
    /\ figure' = NoFigure
    /\ error' = "none"

\* An exception leaves generate_heatmap.
Raise(exc) ==
    /\ pc' = "idle"
    /\ error' = exc

\* update_heatmap without its "if start <= end" guard
update_heatmap_unguarded(start, end) == Enter("widget", start, end)

\* update_heatmap(start, end), the callback of interactive_output
update_heatmap(start, end) ==
    IF start <= end
    THEN Enter("widget", start, end)
    ELSE UNCHANGED << pc, request, frame >>

\* interactive_heatmap(protein_sequence): builds the two sliders;
\* interactive_output runs the callback once with their initial values.
interactive_heatmap ==
    /\ pc = "idle"
    /\ ui = FALSE
    /\ ui' = TRUE
    /\ start_slider' = 1
    /\ end_slider' = L
    /\ update_heatmap(1, L)
    /\ UNCHANGED << cli, par, protein_sequence, weights >>

\* The user moves the start slider (an IntSlider with min=1, max=L); the
\* kernel handles the change when no cell is running.
MoveStart ==
    /\ pc = "idle"
    /\ ui
    /\ \E v \in 1..L :
        /\ v # start_slider
        /\ start_slider' = v
        /\ update_heatmap(v, end_slider)
    /\ UNCHANGED << cli, par, protein_sequence, weights, ui, end_slider >>

\* The user moves the end slider.
MoveEnd ==
    /\ pc = "idle"
    /\ ui
    /\ \E v \in 1..L :
        /\ v # end_slider
        /\ end_slider' = v
        /\ update_heatmap(start_slider, v)
    /\ UNCHANGED << cli, par, protein_sequence, weights, ui, start_slider >>

\* Arguments tried for a call of generate_heatmap from a notebook cell.
StartArgs == -1 .. (L + 1)
EndArgs == (0 .. (L + 2)) \cup {None}

\* generate_heatmap(protein_sequence, start_pos, end_pos) called directly
generate_heatmap ==
    /\ pc = "idle"
    /\ \E s \in StartArgs, e \in EndArgs : Enter("direct", s, e)
    /\ UNCHANGED << cli, par, protein_sequence, weights, widget >>

\* Tokenize with sequence_length = input_ids.shape[1] (special tokens counted)
TokenizeKeepSpecials ==
    /\ pc = "tokenize"
    /\ input_ids' = encode(protein_sequence)
    /\ sequence_length' = shape1(input_ids')
    /\ end_pos' = IF end_pos = None THEN sequence_length' ELSE end_pos
    /\ pc' = "zeros"
    /\ UNCHANGED << cli, par, protein_sequence, weights, widget, request, start_pos,
                    masked_input_ids, log_probabilities, wt_residue, log_prob_wt,
                    position, i, heatmap, writes, inferences, figure, error >>

\* Load the model and tokenizer, tokenize, default end_pos.
Tokenize ==
    /\ pc = "tokenize"
    /\ input_ids' = encode(protein_sequence)
    /\ sequence_length' = shape1(input_ids') - 2
    /\ end_pos' = IF end_pos = None THEN sequence_length' ELSE end_pos
    /\ pc' = "zeros"
    /\ UNCHANGED << cli, par, protein_sequence, weights, widget, request, start_pos,
                    masked_input_ids, log_probabilities, wt_residue, log_prob_wt,
                    position, i, heatmap, writes, inferences, figure, error >>

\* InitHeatmap with the width clamped: np.zeros((20, max(0, end_pos - start_pos + 1)))
InitHeatmapClamped ==
    /\ pc = "zeros"
    /\ LET cols == end_pos - start_pos + 1
           width == IF cols < 0 THEN 0 ELSE cols
       IN  /\ heatmap' = zeros(Len(amino_acids), width)
           /\ writes' = zeros(Len(amino_acids), width)
           /\ pc' = "for_position"
    /\ UNCHANGED << cli, par, protein_sequence, weights, widget, request, start_pos, end_pos,
                    sequence_length, input_ids, masked_input_ids, log_probabilities,
                    wt_residue, log_prob_wt, position, i, inferences, figure, error >>

\* heatmap = np.zeros((20, end_pos - start_pos + 1))
InitHeatmap ==
    /\ pc = "zeros"
    /\ LET cols == end_pos - start_pos + 1 IN
         IF cols < 0
         THEN /\ Raise("ValueError")
              /\ UNCHANGED << heatmap, writes >>
         ELSE /\ heatmap' = zeros(Len(amino_acids), cols)
              /\ writes' = zeros(Len(amino_acids), cols)
              /\ pc' = "for_position"
              /\ UNCHANGED error
    /\ UNCHANGED << cli, par, protein_sequence, weights, widget, request, start_pos, end_pos,
                    sequence_length, input_ids, masked_input_ids, log_probabilities,
                    wt_residue, log_prob_wt, position, i, inferences, figure >>

\* for position in range(start_pos, end_pos + 1)
ForPosition ==
    /\ pc = "for_position"
    /\ LET nxt == IF position = None THEN start_pos ELSE position + 1 IN
         IF nxt \in range(start_pos, end_pos + 1)
         THEN /\ position' = nxt
              /\ pc' = "mask"
         ELSE /\ pc' = "render"
              /\ UNCHANGED position
    /\ UNCHANGED << cli, par, protein_sequence, weights, widget, request, start_pos, end_pos,
                    sequence_length, input_ids, masked_input_ids, log_probabilities,
                    wt_residue, log_prob_wt, i, heatmap, writes, inferences, figure,
                    error >>

\* Mask at index position + 1
MaskNext ==
    /\ pc = "mask"
    /\ LET k == PyIndex(shape1(input_ids), position + 1) IN
         IF k = None
         THEN /\ Raise("IndexError")
              /\ UNCHANGED masked_input_ids
         ELSE /\ masked_input_ids' = [input_ids EXCEPT ![k] = mask_token_id]
              /\ pc' = "infer"
              /\ UNCHANGED error
    /\ UNCHANGED << cli, par, protein_sequence, weights, widget, request, start_pos, end_pos,
                    sequence_length, input_ids, log_probabilities, wt_residue,
                    log_prob_wt, position, i, heatmap, writes, inferences, figure >>

\* Mask without the clone: masked_input_ids = input_ids (an alias), then the
\* assignment writes through to input_ids
NoCloneMask ==
    /\ pc = "mask"
    /\ LET k == PyIndex(shape1(input_ids), position) IN
         IF k = None
         THEN /\ Raise("IndexError")
              /\ UNCHANGED << input_ids, masked_input_ids >>
         ELSE /\ masked_input_ids' = [input_ids EXCEPT ![k] = mask_token_id]
              /\ input_ids' = masked_input_ids'
              /\ pc' = "infer"
              /\ UNCHANGED error
    /\ UNCHANGED << cli, par, protein_sequence, weights, widget, request, start_pos, end_pos,
                    sequence_length, log_probabilities, wt_residue,
                    log_prob_wt, position, i, heatmap, writes, inferences, figure >>

\* masked_input_ids = input_ids.clone(); masked_input_ids[0, position] = mask
Mask ==
    /\ pc = "mask"
    /\ LET k == PyIndex(shape1(input_ids), position) IN
         IF k = None
         THEN /\ Raise("IndexError")
              /\ UNCHANGED masked_input_ids
         ELSE /\ masked_input_ids' = [input_ids EXCEPT ![k] = mask_token_id]
              /\ pc' = "infer"
              /\ UNCHANGED error
    /\ UNCHANGED << cli, par, protein_sequence, weights, widget, request, start_pos, end_pos,
                    sequence_length, input_ids, log_probabilities, wt_residue,
                    log_prob_wt, position, i, heatmap, writes, inferences, figure >>

\* Infer on the unmasked input: model(input_ids)
InferUnmasked ==
    /\ pc = "infer"
    /\ LET k == PyIndex(shape1(input_ids), position)
           logits == model_logits(weights, input_ids, k)
       IN  log_probabilities' = log(softmax(logits))
    /\ inferences' = inferences + 1
    /\ pc' = "wild_type"
    /\ UNCHANGED << cli, par, protein_sequence, weights, widget, request, start_pos, end_pos,
                    sequence_length, input_ids, masked_input_ids, wt_residue,
                    log_prob_wt, position, i, heatmap, writes, figure, error >>

\* logits = model(masked_input_ids).logits;
\* log_probabilities = log(softmax(logits[0, position]))
Infer ==
    /\ pc = "infer"
    /\ LET k == PyIndex(shape1(masked_input_ids), position)
           logits == model_logits(weights, masked_input_ids, k)
       IN  log_probabilities' = log(softmax(logits))
    /\ inferences' = inferences + 1
    /\ pc' = "wild_type"
    /\ UNCHANGED << cli, par, protein_sequence, weights, widget, request, start_pos, end_pos,
                    sequence_length, input_ids, masked_input_ids, wt_residue,
                    log_prob_wt, position, i, heatmap, writes, figure, error >>

\* WildType read from the masked copy: wt_residue = masked_input_ids[0, position]
WildTypeFromMasked ==
    /\ pc = "wild_type"
    /\ wt_residue' = masked_input_ids[PyIndex(shape1(masked_input_ids), position)]
    /\ log_prob_wt' = log_probabilities[wt_residue']
    /\ i' = 0
    /\ pc' = "for_amino_acid"
    /\ UNCHANGED << cli, par, protein_sequence, weights, widget, request, start_pos, end_pos,
                    sequence_length, input_ids, masked_input_ids, log_probabilities,
                    position, heatmap, writes, inferences, figure, error >>

\* wt_residue = input_ids[0, position]; log_prob_wt = log_probabilities[wt_residue]
WildType ==
    /\ pc = "wild_type"
    /\ wt_residue' = input_ids[PyIndex(shape1(input_ids), position)]
    /\ log_prob_wt' = log_probabilities[wt_residue']
    /\ i' = 0
    /\ pc' = "for_amino_acid"
    /\ UNCHANGED << cli, par, protein_sequence, weights, widget, request, start_pos, end_pos,
                    sequence_length, input_ids, masked_input_ids, log_probabilities,
                    position, heatmap, writes, inferences, figure, error >>

\* one pass of: for i, amino_acid in enumerate(amino_acids)
Variant ==
    /\ pc = "for_amino_acid"
    /\ LET amino_acid == amino_acids[i + 1]
           log_prob_mt == log_probabilities[convert_tokens_to_ids(amino_acid)]
           col == position - start_pos
       IN  /\ heatmap' = [heatmap EXCEPT ![i][col] = log_prob_mt - log_prob_wt]
           /\ writes' = [writes EXCEPT ![i][col] = @ + 1]
    /\ IF i + 1 < Len(amino_acids)
       THEN /\ i' = i + 1
            /\ UNCHANGED pc
       ELSE /\ pc' = "for_position"
            /\ UNCHANGED i
    /\ UNCHANGED << cli, par, protein_sequence, weights, widget, request, start_pos, end_pos,
                    sequence_length, input_ids, masked_input_ids, log_probabilities,
                    wt_residue, log_prob_wt, position, inferences, figure, error >>

\* plt.imshow(heatmap); plt.xticks(range(...), list(protein_sequence[start_pos-1:end_pos]))
Render ==
    /\ pc = "render"
    /\ figure' = << [ table |-> heatmap,
                      xticks |-> range(0, end_pos - start_pos + 1),
                      xticklabels |-> PySlice(protein_sequence, start_pos - 1, end_pos) ] >>
    /\ pc' = "idle"
    /\ UNCHANGED << cli, par, protein_sequence, weights, widget, request, start_pos, end_pos,
                    sequence_length, input_ids, masked_input_ids, log_probabilities,
                    wt_residue, log_prob_wt, position, i, heatmap, writes, inferences,
                    error >>

Next ==
    \/ interactive_heatmap
    \/ MoveStart
    \/ MoveEnd
    \/ generate_heatmap
    \/ Tokenize
    \/ InitHeatmap
    \/ ForPosition
    \/ Mask
    \/ Infer
    \/ WildType
    \/ Variant
    \/ Render

Spec == Init /\ [][Next]_vars

\* ------------------------------------- the loop body, one run per position
\* The same query is first answered by the sequential loop (the actions
\* above), then the loop body is run once per position of the range, the
\* runs interleaved in any order. The runs share input_ids and the table;
\* masked_input_ids, log_probabilities, log_prob_wt and i are local to a run.
ParDone == \A p \in DOMAIN par_pc : par_pc[p] = "done"

\* a query with a valid range of at most MaxWorkers positions
ParQuery ==
    /\ pc = "idle"
    /\ ParDone
    /\ \E s \in 1..L, e \in 1..L :
        /\ s <= e
        /\ e - s + 1 <= MaxWorkers
        /\ Enter("direct", s, e)
    /\ par_pc' = << >>
    /\ par_masked_input_ids' = << >>
    /\ par_log_probabilities' = << >>
    /\ par_log_prob_wt' = << >>
    /\ par_i' = << >>
    /\ par_heatmap' = NoTensor
    /\ UNCHANGED << cli, protein_sequence, weights, widget >>

\* heatmap = np.zeros(...); one run of the loop body per position of
\* range(start_pos, end_pos + 1)
Fork ==
    /\ pc = "idle"
    /\ request # << >>
    /\ Len(figure) = 1
    /\ par_pc = << >>
    /\ par_pc' = [p \in range(start_pos, end_pos + 1) |-> "mask"]
    /\ par_masked_input_ids' = [p \in range(start_pos, end_pos + 1) |-> NoTensor]
    /\ par_log_probabilities' = [p \in range(start_pos, end_pos + 1) |-> NoTensor]
    /\ par_log_prob_wt' = [p \in range(start_pos, end_pos + 1) |-> None]
    /\ par_i' = [p \in range(start_pos, end_pos + 1) |-> None]
    /\ par_heatmap' = zeros(Len(amino_acids), end_pos - start_pos + 1)
    /\ UNCHANGED << cli, notebook_state >>

\* ParMask without the clone: the run masks the shared input_ids itself
ParMaskNoClone(p) ==
    /\ par_pc[p] = "mask"
    /\ input_ids' = [input_ids EXCEPT ![PyIndex(shape1(input_ids), p)] = mask_token_id]
    /\ par_masked_input_ids' = [par_masked_input_ids EXCEPT ![p] = input_ids']
    /\ par_pc' = [par_pc EXCEPT ![p] = "infer"]
    /\ UNCHANGED << cli, protein_sequence, weights, widget, pc, request, start_pos,
                    end_pos, sequence_length, masked_input_ids, log_probabilities,
                    wt_residue, log_prob_wt, position, i, heatmap, writes, inferences,
                    figure, error, par_log_probabilities, par_log_prob_wt, par_i,
                    par_heatmap >>

\* masked_input_ids = input_ids.clone(); masked_input_ids[0, position] = mask
ParMask(p) ==
    /\ par_pc[p] = "mask"
    /\ par_masked_input_ids' =
         [par_masked_input_ids EXCEPT
            ![p] = [input_ids EXCEPT ![PyIndex(shape1(input_ids), p)] = mask_token_id]]
    /\ par_pc' = [par_pc EXCEPT ![p] = "infer"]
    /\ UNCHANGED << cli, notebook_state, par_log_probabilities, par_log_prob_wt,
                    par_i, par_heatmap >>

\* logits = model(masked_input_ids).logits; log_probabilities = log(softmax(...))
ParInfer(p) ==
    /\ par_pc[p] = "infer"
    /\ LET ids == par_masked_input_ids[p]
           logits == model_logits(weights, ids, PyIndex(shape1(ids), p))
       IN  par_log_probabilities' = [par_log_probabilities EXCEPT ![p] = log(softmax(logits))]
    /\ par_pc' = [par_pc EXCEPT ![p] = "wild_type"]
    /\ UNCHANGED << cli, notebook_state, par_masked_input_ids, par_log_prob_wt,
                    par_i, par_heatmap >>

\* wt_residue = input_ids[0, position]; log_prob_wt = log_probabilities[wt_residue]
ParWildType(p) ==
    /\ par_pc[p] = "wild_type"
    /\ LET wt == input_ids[PyIndex(shape1(input_ids), p)]
       IN  par_log_prob_wt' = [par_log_prob_wt EXCEPT ![p] = par_log_probabilities[p][wt]]
    /\ par_i' = [par_i EXCEPT ![p] = 0]
    /\ par_pc' = [par_pc EXCEPT ![p] = "for_amino_acid"]
    /\ UNCHANGED << cli, notebook_state, par_masked_input_ids, par_log_probabilities,
                    par_heatmap >>

\* one pass of: for i, amino_acid in enumerate(amino_acids)
ParVariant(p) ==
    /\ par_pc[p] = "for_amino_acid"
    /\ LET amino_acid == amino_acids[par_i[p] + 1]
           log_prob_mt == par_log_probabilities[p][convert_tokens_to_ids(amino_acid)]
       IN  par_heatmap' = [par_heatmap EXCEPT
                             ![par_i[p]][p - start_pos] = log_prob_mt - par_log_prob_wt[p]]
    /\ IF par_i[p] + 1 < Len(amino_acids)
       THEN /\ par_i' = [par_i EXCEPT ![p] = @ + 1]
            /\ UNCHANGED par_pc
       ELSE /\ par_pc' = [par_pc EXCEPT ![p] = "done"]
            /\ UNCHANGED par_i
    /\ UNCHANGED << cli, notebook_state, par_masked_input_ids, par_log_probabilities,
                    par_log_prob_wt >>

NextPar ==
    \/ ParQuery
    \/ Tokenize
    \/ InitHeatmap
    \/ ForPosition
    \/ Mask
    \/ Infer
    \/ WildType
    \/ Variant
    \/ Render
    \/ Fork
    \/ \E p \in DOMAIN par_pc : ParMask(p)
    \/ \E p \in DOMAIN par_pc : ParInfer(p)
    \/ \E p \in DOMAIN par_pc : ParWildType(p)
    \/ \E p \in DOMAIN par_pc : ParVariant(p)

SpecPar == Init /\ [][NextPar]_vars

\* ---------------------------------------------------------- esm_example.sh
\* Parameters tried: every word is a sequence of characters.
Words ==
    { << "-", "a" >>, << "-", "s" >>, << "-", "o" >>, << "-", "x" >>,
      << "-", "a", "v" >>, << "-", "x", "a" >>, << "-", "-" >>, << "-" >>,
      << "v" >>, << "w" >> }

RECURSIVE WordLists(_)
WordLists(n) ==
    IF n = 0 THEN { << >> }
    ELSE LET shorter == WordLists(n - 1)
         IN  shorter \cup { Append(l, w) : l \in { x \in shorter : Len(x) = n - 1 }, w \in Words }

\* the option letters of the optstring "a:s:o:" (each takes an argument)
optstring == { "a", "s", "o" }

\* The script is started with the parameters "$@"; the notebook is not used.
InitCli ==
    /\ InitNotebook
    /\ protein_sequence = << "M" >>
    /\ weights = 1
    /\ InitShell
    /\ InitPar
    /\ argv \in WordLists(MaxArgs)
    /\ cli_pc = "getopts"

notebook == << protein_sequence, weights, widget, pc, request, frame, par >>

\* getopts has no more options: no parameter is left, or the next one is not
\* an option ("-" alone included), or it is "--"
OptionsEnd ==
    IF OPTIND > Len(argv) THEN TRUE
    ELSE IF optpos # 0 THEN FALSE
    ELSE IF Len(argv[OPTIND]) < 2 THEN TRUE
    ELSE argv[OPTIND][1] # "-" \/ argv[OPTIND] = << "-", "-" >>

\* position of the option character getopts looks at next
OptChar == IF optpos = 0 THEN 2 ELSE optpos

\* getopts reports "?": the character is not in the optstring, or it is and
\* nothing follows it, neither in its word nor as a next parameter
IllegalOption == argv[OPTIND][OptChar] \notin optstring

MissingArgument ==
    /\ argv[OPTIND][OptChar] \in optstring
    /\ OptChar = Len(argv[OPTIND])
    /\ OPTIND = Len(argv)

usage == "Usage: $0 [-a app] [-s sequence] [-o output file]"

\* while getopts ...: returns non-zero, the loop ends.
GetoptsEnd ==
    /\ cli_pc = "getopts"
    /\ OptionsEnd
    /\ OPTIND' = IF OPTIND > Len(argv) THEN OPTIND
                 ELSE IF argv[OPTIND] = << "-", "-" >> THEN OPTIND + 1
                 ELSE OPTIND
    /\ opt' = "?"
    /\ cli_pc' = "echo"
    /\ UNCHANGED << notebook, argv, optpos, OPTARG, app, sequence, output_file,
                    stdout, stderr, status, given >>

\* getopts returns one of a, s, o with its argument; the case stores it.
GetoptsOption ==
    /\ cli_pc = "getopts"
    /\ ~OptionsEnd
    /\ ~IllegalOption
    /\ ~MissingArgument
    /\ LET word == argv[OPTIND]
           c == word[OptChar]
           attached == OptChar < Len(word)
           value == IF attached THEN SubSeq(word, OptChar + 1, Len(word))
                    ELSE argv[OPTIND + 1]
       IN  /\ opt' = c
           /\ OPTARG' = value
           /\ OPTIND' = IF attached THEN OPTIND + 1 ELSE OPTIND + 2
           /\ optpos' = 0
           /\ app' = IF c = "a" THEN value ELSE app
           /\ sequence' = IF c = "s" THEN value ELSE sequence
           /\ output_file' = IF c = "o" THEN value ELSE output_file
           /\ given' = Append(given, << c, value >>)
    /\ UNCHANGED << notebook, argv, stdout, stderr, status, cli_pc >>

\* GetoptsUsage without the "exit 1": the usage is printed and the loop goes on
GetoptsUsageNoExit ==
    /\ cli_pc = "getopts"
    /\ ~OptionsEnd
    /\ IllegalOption \/ MissingArgument
    /\ LET word == argv[OPTIND]
           last == OptChar = Len(word)
       IN  /\ OPTIND' = IF last THEN OPTIND + 1 ELSE OPTIND
           /\ optpos' = IF last THEN 0 ELSE OptChar + 1
           /\ stderr' = stderr \o
                << IF IllegalOption THEN "illegal option" ELSE "option requires an argument",
                   usage >>
    /\ opt' = "?"
    /\ OPTARG' = << >>
    /\ UNCHANGED << notebook, argv, app, sequence, output_file, stdout, given,
                    status, cli_pc >>

\* getopts returns "?" (and prints its own message); the case prints the
\* usage to standard error and exits with status 1.
GetoptsUsage ==
    /\ cli_pc = "getopts"
    /\ ~OptionsEnd
    /\ IllegalOption \/ MissingArgument
    /\ LET word == argv[OPTIND]
           last == OptChar = Len(word)
       IN  /\ OPTIND' = IF last THEN OPTIND + 1 ELSE OPTIND
           /\ optpos' = IF last THEN 0 ELSE OptChar + 1
           /\ stderr' = stderr \o
                << IF IllegalOption THEN "illegal option" ELSE "option requires an argument",
                   usage >>
    /\ opt' = "?"
    /\ OPTARG' = << >>
    /\ status' = 1
    /\ cli_pc' = "exit"
    /\ UNCHANGED << notebook, argv, app, sequence, output_file, stdout, given >>

\* the three echo lines; the script ends with the status of the last one
Echo ==
    /\ cli_pc = "echo"
    /\ stdout' = << << "APP", app, sequence, output_file >>,
                    << "SEQ", sequence >>,
                    << "OUT", output_file >> >>
    /\ status' = 0
    /\ cli_pc' = "exit"
    /\ UNCHANGED << notebook, argv, OPTIND, optpos, opt, OPTARG, app, sequence,
                    output_file, stderr, given >>

NextCli ==
    \/ GetoptsEnd
    \/ GetoptsOption
    \/ GetoptsUsage
    \/ Echo

SpecCli == InitCli /\ [][NextCli]_vars

\* ------------------------------------------------------------- properties
Scoring == {"infer", "wild_type", "for_amino_acid"}

\* generate_heatmap was called and is past its argument defaults
Called == request # << >> /\ pc # "tokenize"

\* the heatmap array of the latest call exists
TableBuilt == Called /\ pc # "zeros" /\ error # "ValueError"

\* the latest call was given a Position Range: 1 <= start <= end <= L
ValidRange == 1 <= start_pos /\ start_pos <= end_pos /\ end_pos <= L

\* the latest call ran to its end and drew its figure
Drawn == Called /\ pc = "idle" /\ Len(figure) = 1

\* row of an amino acid in the table
RowOf(letter) == (CHOOSE k \in 1..Len(amino_acids) : amino_acids[k] = letter) - 1

Rows == 0 .. (Len(amino_acids) - 1)

\* the log-distribution of the model at index p for the tokenized sequence
\* masked at index p only
LogpMaskedAt(p) ==
    LET ids == encode(protein_sequence)
    IN  log(softmax(model_logits(weights, [ids EXCEPT ![p] = mask_token_id], p)))

\* a slider event or the first display ran the callback in this step
CallbackRan == << start_slider, end_slider, ui >>' # << start_slider, end_slider, ui >>

\* C1: for a valid range, once the cell in the wild-type residue's row of
\* column p - start has been written, it holds exactly 0.
WildTypeRowIsZero ==
    (TableBuilt /\ ValidRange) =>
        \A p \in start_pos..end_pos :
            LET r == RowOf(protein_sequence[p])
                c == p - start_pos
            IN  writes[r][c] > 0 => heatmap[r][c] = 0

\* C1 witness: "MAP" scored over 1..3; row M of column 0 is 0 while another
\* row of that column is not.
WildTypeRowWritten ==
    /\ Drawn /\ error = "none"
    /\ protein_sequence = << "M", "A", "P" >>
    /\ start_pos = 1 /\ end_pos = 3
    /\ writes[RowOf("M")][0] = 1
    /\ figure[1].table[RowOf("M")][0] = 0
    /\ \E r \in Rows : figure[1].table[r][0] # 0

\* C2: for a valid range every written cell (r, p - start) equals
\* logp_p[id of the r-th amino acid] - logp_p[id of the residue at p], logp_p
\* being the model's log-distribution for the input masked at p only; no cell
\* is written twice and when the loop is over every cell was written once.
CellIsLLR ==
    (TableBuilt /\ ValidRange) =>
        \A p \in start_pos..end_pos :
            LET c == p - start_pos
                logp == LogpMaskedAt(p)
                wt == encode(protein_sequence)[p]
            IN  \A r \in Rows :
                    /\ writes[r][c] <= 1
                    /\ writes[r][c] = 1 =>
                         heatmap[r][c] = logp[convert_tokens_to_ids(amino_acids[r + 1])] - logp[wt]
                    /\ (pc \in {"render", "idle"} /\ error = "none") => writes[r][c] = 1

\* C2 witness: a table of three columns drawn, with different columns.
AllCellsWritten ==
    /\ Drawn /\ error = "none" /\ ValidRange
    /\ end_pos - start_pos = 2
    /\ \A r \in Rows : \A c \in 0..2 : writes[r][c] = 1
    /\ \E r \in Rows : figure[1].table[r][0] # figure[1].table[r][1]

\* C3: for a valid range (end defaulting to L when not given) the table has
\* 20 rows and end - start + 1 columns.
TableShape ==
    LET s == request[2]
        e == IF request[3] = None THEN L ELSE request[3]
    IN  (TableBuilt /\ 1 <= s /\ s <= e /\ e <= L) =>
            /\ Cardinality(DOMAIN heatmap) = 20
            /\ \A r \in DOMAIN heatmap : DOMAIN heatmap[r] = 0 .. (e - s)
            /\ request[3] = None => end_pos = L

\* C3 witness: end not given, start = 1: L = MaxLen columns drawn.
DefaultEndFullTable ==
    /\ Drawn
    /\ request = << "direct", 1, None >>
    /\ L = MaxLen
    /\ DOMAIN figure[1].table[0] = 0 .. (L - 1)

\* C4: while a position is scored the masked copy differs from input_ids at
\* exactly the index of that position, where it holds the mask token, and
\* input_ids is the tokenized sequence at every point of every call.
MaskIsolated ==
    /\ Called => input_ids = encode(protein_sequence)
    /\ pc \in Scoring =>
         LET k == PyIndex(shape1(input_ids), position)
         IN  /\ { j \in DOMAIN input_ids : masked_input_ids[j] # input_ids[j] } = {k}
             /\ masked_input_ids[k] = mask_token_id

\* C4 witness: the second position of a range is scored and the index masked
\* for the first one holds its residue again.
SecondPositionMasked ==
    /\ pc = "infer"
    /\ ValidRange
    /\ position = start_pos + 1
    /\ masked_input_ids[start_pos] = input_ids[start_pos]
    /\ masked_input_ids[position] = mask_token_id

\* C5: every run of the widget callback invokes generate_heatmap iff
\* start <= end, with the sliders' values, and every call made by the widget
\* has 1 <= start <= end <= L and scores only indices 1..L.
WidgetGuard ==
    /\ [] ( (request # << >> /\ request[1] = "widget") =>
              /\ 1 <= request[2] /\ request[2] <= request[3] /\ request[3] <= L
              /\ pc \in Scoring => position \in 1..L )
    /\ [][ CallbackRan =>
              /\ (pc' = "tokenize") <=> (start_slider' <= end_slider')
              /\ pc' = "tokenize" => request' = << "widget", start_slider', end_slider' >>
         ]_vars

\* C5 witness: both sliders moved, the call made for them drew its figure.
WidgetCallDrawn ==
    /\ Drawn
    /\ request[1] = "widget"
    /\ start_slider = 2 /\ end_slider = 2
    /\ request = << "widget", 2, 2 >>

RangeValidated ==
    (Called /\ (start_pos < 1 \/ end_pos > L)) =>
        /\ pc = "idle" => error # "none"
        /\ TableBuilt => \A r \in DOMAIN writes : \A c \in DOMAIN writes[r] : writes[r][c] = 0
        /\ pc \in Scoring =>
             PyIndex(shape1(input_ids), position) \notin {0, L + 1}

\* C8 (as claimed): position p is masked and read at index p + 1.
IndexIsPositionPlusOne ==
    (pc \in Scoring /\ ValidRange) =>
        /\ masked_input_ids[position + 1] = mask_token_id
        /\ pc = "for_amino_acid" => wt_residue = input_ids[position + 1]

\* C8 (amended): for a valid range position p is masked, read and taken as
\* wild type at index p of the tokenized sequence (index 0 holds the start
\* sentinel, so index p holds the p-th residue, 1-indexed).
IndexIsPosition ==
    (pc \in Scoring /\ ValidRange) =>
        /\ input_ids[0] = cls_token_id
        /\ masked_input_ids[position] = mask_token_id
        /\ \A j \in DOMAIN masked_input_ids :
              j # position => masked_input_ids[j] # mask_token_id
        /\ pc \in {"wild_type", "for_amino_acid"} =>
              log_probabilities = log(softmax(model_logits(weights, masked_input_ids, position)))
        /\ pc = "for_amino_acid" =>
              wt_residue = convert_tokens_to_ids(protein_sequence[position])

\* C8 witness: the last residue of "MAP" is scored: index 3 is masked and the
\* wild type is P.
LastResidueScored ==
    /\ pc = "for_amino_acid"
    /\ ValidRange
    /\ protein_sequence = << "M", "A", "P" >>
    /\ position = 3
    /\ masked_input_ids[3] = mask_token_id
    /\ wt_residue = convert_tokens_to_ids("P")

\* the value of the last pair of `given` for a flag
RECURSIVE LastGiven(_, _, _)
LastGiven(pairs, flag, default) ==
    IF pairs = << >> THEN default
    ELSE IF pairs[Len(pairs)][1] = flag THEN pairs[Len(pairs)][2]
    ELSE LastGiven(SubSeq(pairs, 1, Len(pairs) - 1), flag, default)

\* option parsing is at a flag that is not -a, -s, -o, or at one of them
\* without its argument
MeetsBadFlag == cli_pc = "getopts" /\ ~OptionsEnd /\ (IllegalOption \/ MissingArgument)

\* C10: when option parsing meets a bad flag the script at once prints the
\* usage to standard error and exits with status 1, nothing echoed, whatever
\* was parsed before; otherwise it reaches the echo lines, which print for
\* each flag the last value given for it.
UsageOrEcho ==
    /\ [][ MeetsBadFlag =>
              /\ cli_pc' = "exit" /\ status' = 1
              /\ stderr'[Len(stderr')] = usage
              /\ stdout' = << >> ]_vars
    /\ [] ( (cli_pc = "exit" /\ status = 1) => stdout = << >> )
    /\ [] ( (cli_pc = "exit" /\ status = 0) =>
              /\ stderr = << >>
              /\ app = LastGiven(given, "a", << >>)
              /\ sequence = LastGiven(given, "s", << >>)
              /\ output_file = LastGiven(given, "o", << >>)
              /\ stdout = << << "APP", app, sequence, output_file >>,
                             << "SEQ", sequence >>, << "OUT", output_file >> >> )
    /\ [] ( cli_pc = "exit" => (status = 0 \/ status = 1) )

\* C10 witness: "-a v -x": a valid flag was parsed, then the usage exit.
UsageAfterValidFlags ==
    /\ cli_pc = "exit" /\ status = 1
    /\ argv = << << "-", "a" >>, << "v" >>, << "-", "x" >> >>
    /\ Len(given) = 1
    /\ app = << "v" >>
    /\ stderr[Len(stderr)] = usage
    /\ stdout = << >>

\* C9: when every position's run of the loop body is over, in whatever order
\* their steps were interleaved, the table is the one the sequential loop
\* drew for the same query, whatever queries came before, and
\* input_ids is still the tokenized sequence; a step of one run leaves the
\* columns of the other runs alone.
AnyOrderSameTable ==
    /\ [] ( (par_pc # << >> /\ ParDone) =>
              /\ par_heatmap = figure[1].table
              /\ par_heatmap = heatmap
              /\ input_ids = encode(protein_sequence) )
    /\ [][ (par_pc # << >> /\ DOMAIN par_pc' = DOMAIN par_pc) =>
              \A p \in DOMAIN par_pc :
                  (par_pc'[p] = par_pc[p] /\ par_i'[p] = par_i[p]) =>
                      \A r \in Rows :
                          par_heatmap'[r][p - start_pos] = par_heatmap[r][p - start_pos]
         ]_vars

\* C9 witness: of two positions the later one's run has finished while the
\* earlier one's is about to write its last cell.
LaterPositionFinishedFirst ==
    /\ par_pc # << >>
    /\ end_pos = start_pos + 1
    /\ par_pc[end_pos] = "done"
    /\ par_pc[start_pos] = "for_amino_acid"
    /\ par_i[start_pos] = Len(amino_acids) - 1
    /\ \E r \in Rows : par_heatmap[r][1] # 0

====
